---------------------------- MODULE Spec2Model ----------------------------
(***************************************************************************)
(* The LRU cache of rembg model sessions of app.py: get_session and the    *)
(* OrderedDict it keeps in _session_cache.                                 *)
(*                                                                         *)
(* get_session is modelled statement by statement.  Every caller has a     *)
(* program counter named after the source line it executes next.  Under    *)
(* Spec the calls are made by one thread, one after another; under         *)
(* SpecThreads the statements of calls made by different threads           *)
(* interleave freely, get_session taking no lock.  Each OrderedDict method *)
(* is one atomic step.                                                     *)
(*                                                                         *)
(* The callers of get_session are the startup hook preload_all_models and  *)
(* the handler remove_background, modelled the same way.                   *)
(***************************************************************************)
EXTENDS Integers, Sequences, FiniteSets

(* Bounds of the model. *)
CatalogSize == 3
MaxCapacity == 2
NumThreads == 2
MaxCalls == 4
MaxRaceCalls == 3
WarmupSize == 5

(* app.py:23-40 *)
AllModels ==
    << "u2net", "u2netp", "u2net_human_seg", "u2net_cloth_seg", "silueta",
       "isnet-general-use", "isnet-anime", "sam", "birefnet-general",
       "birefnet-general-lite", "birefnet-portrait", "birefnet-dis",
       "birefnet-hrsod", "birefnet-cod", "birefnet-massive", "bria-rmbg" >>

(* The catalog: the first CatalogSize names of the list of app.py. *)
KNOWN_MODELS == SubSeq(AllModels, 1, CatalogSize)

KnownSet == {KNOWN_MODELS[i] : i \in 1..Len(KNOWN_MODELS)}

(* A name a client may send that is not in the list. *)
UnknownModel == "no-such-model"

Requests == KnownSet \cup {UnknownModel}

Threads == 1..NumThreads

(* warmup.py:6-23: the same names as in app.py; the first WarmupSize. *)
MODELS == SubSeq(AllModels, 1, WarmupSize)

(* The value of a local that has not been assigned. *)
NoSession == [model_name |-> "", id |-> 0]

NoResult == [kind |-> "none", value |-> NoSession]

VARIABLES
    MAX_SESSIONS,     \* app.py:45, fixed for the life of the process
    session_cache,    \* _session_cache: sequence of entries, oldest first
    new_session_calls,\* number of calls of rembg.new_session so far
    ncalls,           \* number of calls of get_session started so far
    pc,               \* per thread: the line of get_session it is at
    model,            \* per thread: the argument of get_session
    sess,             \* per thread: the local sess
    evicted,          \* per thread: the names its popitem calls returned
    ret,              \* per thread: how its last call ended
    made,             \* per thread: new_session calls made by its call
    pre,              \* per thread: _session_cache when its call started
    last_use,         \* per name: the number of the last call that returned its session
    trace,            \* the completed calls, in order of completion
    last,             \* the thread whose call completed last (0: none yet)
    PRELOAD_MODELS,   \* app.py:48, fixed for the life of the process
    DEFAULT_MODEL,    \* app.py:42, fixed for the life of the process
    startup,          \* the line preload_all_models is at
    pl_i,             \* preload_all_models: index of the for loop in KNOWN_MODELS
    preload_log,      \* preload_all_models: the calls it made and how they ended
    rpc,              \* per thread: the line of remove_background it is at
    data,             \* per thread: remove_background, the bytes read at line 177
    q_model,          \* per thread: remove_background, the query parameter model
    r_sess,           \* per thread: remove_background, the local sess
    outcome,          \* per thread: how its last request ended
    gs_calls,         \* per thread: get_session calls made by its request
    tr_calls,         \* per thread: calls of rembg.remove made by its request
    last_tf,          \* the model of the request answered last, if remove failed in it
    wpc,              \* warmup.py: the line the script is at
    w_i,              \* warmup.py: index of the for loop in MODELS
    attempts,         \* warmup.py: the names new_session was called with
    ok,               \* warmup.py: the list ok
    fail,             \* warmup.py: the list fail
    exit_status       \* warmup.py: the argument of sys.exit (-1: still running)

(* The environment of the process. *)
config == << PRELOAD_MODELS, DEFAULT_MODEL >>

(* preload_all_models. *)
prevars == << startup, pl_i, preload_log >>

(* remove_background. *)
reqvars == << rpc, data, q_model, r_sess, outcome, gs_calls, tr_calls,
              last_tf >>

(* The callers of get_session: they wait while a call runs. *)
callers == << prevars, reqvars >>

(* The script warmup.py, a process of its own. *)
wvars == << wpc, w_i, attempts, ok, fail, exit_status >>

(* The cache and what get_session keeps. *)
cachevars == << MAX_SESSIONS, session_cache, new_session_calls, ncalls, pc,
                model, sess, evicted, ret, made, pre, last_use, trace, last >>

vars == << cachevars, config, callers, wvars >>

-----------------------------------------------------------------------------
(* collections.OrderedDict, as a sequence of [name, handle], oldest first. *)

Keys(od) == {od[i].name : i \in 1..Len(od)}

Contains(od, k) == k \in Keys(od)

IndexOf(od, k) == CHOOSE i \in 1..Len(od) : od[i].name = k

Remove(od, k) ==
    LET i == IndexOf(od, k)
    IN  SubSeq(od, 1, i - 1) \o SubSeq(od, i + 1, Len(od))

(* od[k]; the caller checks Contains(od, k), the code raises KeyError. *)
GetItem(od, k) == od[IndexOf(od, k)].handle

(* od[k] = v: a new key goes to the end, an old key keeps its place. *)
SetItem(od, k, v) ==
    IF Contains(od, k)
    THEN [od EXCEPT ![IndexOf(od, k)] = [name |-> k, handle |-> v]]
    ELSE Append(od, [name |-> k, handle |-> v])

(* Mutant: the entry is left where it is. *)
MoveToEndKeepsPlace(od, k) == od

(* od.move_to_end(k) *)
MoveToEnd(od, k) == Append(Remove(od, k), od[IndexOf(od, k)])

(* Mutant: popitem() with its default last=True. *)
PopLast(od) == [item |-> od[Len(od)], rest |-> SubSeq(od, 1, Len(od) - 1)]

(* od.popitem(last=False): the pair removed and what is left. *)
PopFirst(od) == [item |-> Head(od), rest |-> Tail(od)]

(* Mutant: the membership test is dropped. *)
IsKnownAlways(m) == TRUE

(* app.py:59  model in KNOWN_MODELS *)
IsKnown(m) == m \in KnownSet

(* Mutant: the bound is off by one. *)
TooManyOffByOne(od, cap) == Len(od) > cap + 1

(* app.py:74  len(_session_cache) > MAX_SESSIONS *)
TooMany(od, cap) == Len(od) > cap

-----------------------------------------------------------------------------
Init ==
    /\ MAX_SESSIONS \in 1..MaxCapacity
    /\ session_cache = << >>
    /\ new_session_calls = 0
    /\ ncalls = 0
    /\ pc = [t \in Threads |-> "idle"]
    /\ model = [t \in Threads |-> UnknownModel]
    /\ sess = [t \in Threads |-> NoSession]
    /\ evicted = [t \in Threads |-> << >>]
    /\ ret = [t \in Threads |-> NoResult]
    /\ made = [t \in Threads |-> 0]
    /\ pre = [t \in Threads |-> << >>]
    /\ last_use = [n \in KnownSet |-> 0]
    /\ trace = << >>
    /\ last = 0
    /\ PRELOAD_MODELS \in {"0", "1"}
    /\ DEFAULT_MODEL \in (IF PRELOAD_MODELS = "1" THEN Requests
                                                 ELSE {KNOWN_MODELS[1]})
    /\ startup = "L125"
    /\ pl_i = 0
    /\ preload_log = << >>
    /\ rpc = [t \in Threads |-> "none"]
    /\ data = [t \in Threads |-> ""]
    /\ q_model = [t \in Threads |-> UnknownModel]
    /\ r_sess = [t \in Threads |-> NoSession]
    /\ outcome = [t \in Threads |-> "none"]
    /\ gs_calls = [t \in Threads |-> 0]
    /\ tr_calls = [t \in Threads |-> 0]
    /\ last_tf = ""
    /\ wpc = "L27"
    /\ w_i = 0
    /\ attempts = << >>
    /\ ok = << >>
    /\ fail = << >>
    /\ exit_status = -1

Idle(t) == pc[t] \in {"idle", "done"}

(* The call returns or raises: the caller sees the result. *)
Finish(t, kind, value) ==
    /\ pc' = [pc EXCEPT ![t] = "done"]
    /\ ret' = [ret EXCEPT ![t] = [kind |-> kind, value |-> value]]
    /\ trace' = Append(trace, [name |-> model[t], kind |-> kind])
    /\ last' = t
    /\ last_use' = IF kind = "ok"
                   THEN [last_use EXCEPT ![model[t]] = ncalls]
                   ELSE last_use

Goto(t, line) ==
    /\ pc' = [pc EXCEPT ![t] = line]
    /\ UNCHANGED << ret, trace, last_use, last >>

(* A caller invokes get_session(m). *)
Call(t, m) ==
    /\ Idle(t)
    /\ ncalls < MaxCalls
    /\ ncalls' = ncalls + 1
    /\ model' = [model EXCEPT ![t] = m]
    /\ sess' = [sess EXCEPT ![t] = NoSession]
    /\ evicted' = [evicted EXCEPT ![t] = << >>]
    /\ made' = [made EXCEPT ![t] = 0]
    /\ pre' = [pre EXCEPT ![t] = session_cache]
    /\ pc' = [pc EXCEPT ![t] = "L59"]
    /\ ret' = [ret EXCEPT ![t] = NoResult]
    /\ UNCHANGED << MAX_SESSIONS, session_cache, new_session_calls, trace,
                    last_use, last, config, wvars >>

(* app.py:59-63  if model not in KNOWN_MODELS: raise HTTPException(400) *)
L59(t) ==
    /\ pc[t] = "L59"
    /\ UNCHANGED << config, callers, wvars >>
    /\ IF ~IsKnown(model[t])
       THEN Finish(t, "HTTPException", NoSession)
       ELSE Goto(t, "L65")
    /\ UNCHANGED << MAX_SESSIONS, session_cache, new_session_calls, ncalls,
                    model, sess, evicted, made, pre >>

(* app.py:65  if model in _session_cache: *)
L65(t) ==
    /\ pc[t] = "L65"
    /\ UNCHANGED << config, callers, wvars >>
    /\ IF Contains(session_cache, model[t])
       THEN Goto(t, "L66")
       ELSE Goto(t, "L70")
    /\ UNCHANGED << MAX_SESSIONS, session_cache, new_session_calls, ncalls,
                    model, sess, evicted, made, pre >>

(* app.py:66  _session_cache.move_to_end(model) *)
L66(t) ==
    /\ pc[t] = "L66"
    /\ UNCHANGED << config, callers, wvars >>
    /\ IF Contains(session_cache, model[t])
       THEN /\ session_cache' = MoveToEnd(session_cache, model[t])
            /\ Goto(t, "L67")
       ELSE /\ Finish(t, "KeyError", NoSession)
            /\ UNCHANGED session_cache
    /\ UNCHANGED << MAX_SESSIONS, new_session_calls, ncalls, model, sess,
                    evicted, made, pre >>

(* app.py:67  return _session_cache[model] *)
L67(t) ==
    /\ pc[t] = "L67"
    /\ UNCHANGED << config, callers, wvars >>
    /\ IF Contains(session_cache, model[t])
       THEN Finish(t, "ok", GetItem(session_cache, model[t]))
       ELSE Finish(t, "KeyError", NoSession)
    /\ UNCHANGED << MAX_SESSIONS, session_cache, new_session_calls, ncalls,
                    model, sess, evicted, made, pre >>

(* Mutant: the entry is stored before new_session has returned, so a       *)
(* failed creation leaves an entry without a session behind.               *)
L70StoresFirst(t) ==
    /\ pc[t] = "L70"
    /\ UNCHANGED << config, callers, wvars >>
    /\ new_session_calls' = new_session_calls + 1
    /\ made' = [made EXCEPT ![t] = @ + 1]
    /\ \E created \in BOOLEAN :
          IF created
          THEN /\ sess' = [sess EXCEPT ![t] =
                              [model_name |-> model[t], id |-> new_session_calls']]
               /\ Goto(t, "L71")
               /\ UNCHANGED session_cache
          ELSE /\ Finish(t, "Exception", NoSession)
               /\ session_cache' = SetItem(session_cache, model[t], NoSession)
               /\ UNCHANGED sess
    /\ UNCHANGED << MAX_SESSIONS, ncalls, model, evicted, pre >>

(* app.py:70  sess = new_session(model_name=model); it may raise. *)
L70(t) ==
    /\ pc[t] = "L70"
    /\ UNCHANGED << config, callers, wvars >>
    /\ new_session_calls' = new_session_calls + 1
    /\ made' = [made EXCEPT ![t] = @ + 1]
    /\ \E created \in BOOLEAN :
          IF created
          THEN /\ sess' = [sess EXCEPT ![t] =
                              [model_name |-> model[t], id |-> new_session_calls']]
               /\ Goto(t, "L71")
          ELSE /\ Finish(t, "Exception", NoSession)
               /\ UNCHANGED sess
    /\ UNCHANGED << MAX_SESSIONS, session_cache, ncalls, model, evicted, pre >>

(* app.py:71  _session_cache[model] = sess *)
L71(t) ==
    /\ pc[t] = "L71"
    /\ UNCHANGED << config, callers, wvars >>
    /\ session_cache' = SetItem(session_cache, model[t], sess[t])
    /\ Goto(t, "L72")
    /\ UNCHANGED << MAX_SESSIONS, new_session_calls, ncalls, model, sess,
                    evicted, made, pre >>

(* app.py:72  _session_cache.move_to_end(model) *)
L72(t) ==
    /\ pc[t] = "L72"
    /\ UNCHANGED << config, callers, wvars >>
    /\ IF Contains(session_cache, model[t])
       THEN /\ session_cache' = MoveToEnd(session_cache, model[t])
            /\ Goto(t, "L74")
       ELSE /\ Finish(t, "KeyError", NoSession)
            /\ UNCHANGED session_cache
    /\ UNCHANGED << MAX_SESSIONS, new_session_calls, ncalls, model, sess,
                    evicted, made, pre >>

(* app.py:74  while len(_session_cache) > MAX_SESSIONS: *)
L74(t) ==
    /\ pc[t] = "L74"
    /\ UNCHANGED << config, callers, wvars >>
    /\ IF TooMany(session_cache, MAX_SESSIONS)
       THEN Goto(t, "L75")
       ELSE Goto(t, "L78")
    /\ UNCHANGED << MAX_SESSIONS, session_cache, new_session_calls, ncalls,
                    model, sess, evicted, made, pre >>

(* app.py:75  evicted, _ = _session_cache.popitem(last=False) *)
L75(t) ==
    /\ pc[t] = "L75"
    /\ UNCHANGED << config, callers, wvars >>
    /\ IF session_cache # << >>
       THEN /\ session_cache' = PopFirst(session_cache).rest
            /\ evicted' = [evicted EXCEPT ![t] =
                              Append(@, PopFirst(session_cache).item.name)]
            /\ Goto(t, "L74")
       ELSE /\ Finish(t, "KeyError", NoSession)
            /\ UNCHANGED << session_cache, evicted >>
    /\ UNCHANGED << MAX_SESSIONS, new_session_calls, ncalls, model, sess,
                    made, pre >>

(* app.py:78  return sess *)
L78(t) ==
    /\ pc[t] = "L78"
    /\ UNCHANGED << config, callers, wvars >>
    /\ Finish(t, "ok", sess[t])
    /\ UNCHANGED << MAX_SESSIONS, session_cache, new_session_calls, ncalls,
                    model, sess, evicted, made, pre >>

(* The statements of get_session, run by thread t. *)
Statements(t) ==
    \/ L59(t)
    \/ L65(t)
    \/ L66(t)
    \/ L67(t)
    \/ L70(t)
    \/ L71(t)
    \/ L72(t)
    \/ L74(t)
    \/ L75(t)
    \/ L78(t)

(* The thread that runs the event loop: the handlers of app.py are async   *)
(* functions and get_session does not await, so the calls they make run    *)
(* one after another on this thread.                                       *)
EventLoop == 1

-----------------------------------------------------------------------------
(* preload_all_models, the startup hook (app.py:114-144).  It runs on the  *)
(* event loop before the first request is served.                          *)

(* Mutant: only the HTTPException of get_session is caught. *)
CaughtHTTPOnly(kind) == kind = "HTTPException"

(* app.py:134, 141  except Exception: every error of get_session. *)
Caught(kind) == kind \in {"HTTPException", "Exception", "KeyError"}

(* Mutant: the variable is tested for truth, and "0" is a true string. *)
PreloadOnTruthy(v) == v # ""

(* app.py:125  PRELOAD_MODELS != "1" is false *)
PreloadOn(v) == v = "1"

(* app.py:125-127  if PRELOAD_MODELS != "1": return *)
PreL125 ==
    /\ startup = "L125"
    /\ IF ~PreloadOn(PRELOAD_MODELS)
       THEN startup' = "finished" /\ UNCHANGED pl_i
       ELSE startup' = "L130" /\ pl_i' = 1
    /\ UNCHANGED << MAX_SESSIONS, session_cache, new_session_calls, ncalls,
                    pc, model, sess, evicted, ret, made, pre, last_use,
                    trace, last, config, preload_log, reqvars, wvars >>

(* app.py:130-133  for model in KNOWN_MODELS: _ = get_session(model) *)
PreL133 ==
    /\ startup = "L130"
    /\ pl_i <= Len(KNOWN_MODELS)
    /\ Call(EventLoop, KNOWN_MODELS[pl_i])
    /\ startup' = "L133"
    /\ UNCHANGED << pl_i, preload_log, reqvars >>

(* The call of the try block has ended: the loop goes on (the error is     *)
(* logged at line 135), or the exception leaves the hook.                  *)
PreReturn(from, to) ==
    /\ startup = from
    /\ pc[EventLoop] = "done"
    /\ preload_log' = Append(preload_log,
                             [name |-> model[EventLoop],
                              kind |-> ret[EventLoop].kind])
    /\ IF ret[EventLoop].kind = "ok" \/ Caught(ret[EventLoop].kind)
       THEN startup' = to
       ELSE startup' = "crashed"
    /\ UNCHANGED << MAX_SESSIONS, session_cache, new_session_calls, ncalls,
                    pc, model, sess, evicted, ret, made, pre, last_use,
                    trace, last, config, reqvars, wvars >>

(* app.py:133-135  the end of one turn of the loop *)
PreL135 ==
    /\ PreReturn("L133", "L130")
    /\ pl_i' = pl_i + 1

(* Mutant: the hook ends with the loop. *)
PreL139Skipped ==
    /\ startup = "L130"
    /\ pl_i > Len(KNOWN_MODELS)
    /\ startup' = "finished"
    /\ UNCHANGED << MAX_SESSIONS, session_cache, new_session_calls, ncalls,
                    pc, model, sess, evicted, ret, made, pre, last_use,
                    trace, last, config, pl_i, preload_log, reqvars,
                    wvars >>

(* app.py:137-139  after the loop: _ = get_session(DEFAULT_MODEL) *)
PreL139 ==
    /\ startup = "L130"
    /\ pl_i > Len(KNOWN_MODELS)
    /\ Call(EventLoop, DEFAULT_MODEL)
    /\ startup' = "L139"
    /\ UNCHANGED << pl_i, preload_log, reqvars >>

(* app.py:140-144  the hook returns *)
PreL144 ==
    /\ PreReturn("L139", "finished")
    /\ UNCHANGED pl_i

(* Requests are served once the startup hook has returned. *)
Serving == startup = "finished"

(* Thread t is inside remove_background. *)
InRequest(t) == rpc[t] \notin {"none", "finished"}

(* Some caller invokes get_session(m), MaxRaceCalls calls at most in all.   *)
AnyCall(t) ==
    /\ Serving
    /\ ~InRequest(t)
    /\ ncalls < MaxRaceCalls
    /\ \E m \in Requests : Call(t, m)
    /\ UNCHANGED callers

-----------------------------------------------------------------------------
(* remove_background, the handler of POST /remove (app.py:157-207).        *)

(* The handler raises or returns: the request is answered. *)
Answer(t, result) ==
    /\ rpc' = [rpc EXCEPT ![t] = "finished"]
    /\ outcome' = [outcome EXCEPT ![t] = result]
    /\ last_tf' = IF result = "TransformFailed" THEN q_model[t] ELSE ""

Proceed(t, line) ==
    /\ rpc' = [rpc EXCEPT ![t] = line]
    /\ UNCHANGED << outcome, last_tf >>

(* app.py:177  a request arrives with its upload and its model parameter;  *)
(* data = await image.read()                                               *)
ReqL177(t) ==
    /\ Serving
    /\ rpc[t] = "none"
    /\ Idle(t)
    /\ ncalls < MaxCalls
    /\ \E m \in Requests : q_model' = [q_model EXCEPT ![t] = m]
    /\ \E bytes \in {"", "image"} : data' = [data EXCEPT ![t] = bytes]
    /\ rpc' = [rpc EXCEPT ![t] = "L178"]
    /\ UNCHANGED << r_sess, gs_calls, tr_calls, outcome >>
    /\ UNCHANGED << cachevars, config, prevars, last_tf, wvars >>

(* Mutant: the upload is not tested. *)
ReqL178NoCheck(t) ==
    /\ rpc[t] = "L178"
    /\ Proceed(t, "L182")
    /\ UNCHANGED << cachevars, config, prevars, data, q_model, r_sess,
                    gs_calls, tr_calls, wvars >>

(* app.py:178-179  if not data: raise HTTPException(400, "Empty upload") *)
ReqL178(t) ==
    /\ rpc[t] = "L178"
    /\ IF data[t] = ""
       THEN Answer(t, "InvalidInput")
       ELSE Proceed(t, "L182")
    /\ UNCHANGED << cachevars, config, prevars, data, q_model, r_sess,
                    gs_calls, tr_calls, wvars >>

(* app.py:182  sess = get_session(model): the call *)
ReqL182(t) ==
    /\ rpc[t] = "L182"
    /\ Call(t, q_model[t])
    /\ gs_calls' = [gs_calls EXCEPT ![t] = @ + 1]
    /\ Proceed(t, "L182r")
    /\ UNCHANGED << prevars, data, q_model, r_sess, tr_calls >>

(* app.py:182  sess = get_session(model): the call returns a session, or   *)
(* its exception leaves the handler                                        *)
ReqL182r(t) ==
    /\ rpc[t] = "L182r"
    /\ pc[t] = "done"
    /\ IF ret[t].kind = "ok"
       THEN /\ r_sess' = [r_sess EXCEPT ![t] = ret[t].value]
            /\ Proceed(t, "L186")
       ELSE /\ Answer(t, ret[t].kind)
            /\ UNCHANGED r_sess
    /\ UNCHANGED << cachevars, config, prevars, data, q_model, gs_calls,
                    tr_calls, wvars >>

(* app.py:186  out_bytes = remove(data, session=sess): the call *)
ReqL186(t) ==
    /\ rpc[t] = "L186"
    /\ tr_calls' = [tr_calls EXCEPT ![t] = @ + 1]
    /\ Proceed(t, "remove")
    /\ UNCHANGED << cachevars, config, prevars, data, q_model, r_sess,
                    gs_calls, wvars >>

(* Mutant: a failed removal throws the session away. *)
ReqL187DropsSession(t) ==
    /\ rpc[t] = "remove"
    /\ \E done \in BOOLEAN :
          IF done
          THEN /\ Proceed(t, "L193")
               /\ UNCHANGED session_cache
          ELSE /\ Answer(t, "TransformFailed")
               /\ session_cache' = SelectSeq(session_cache,
                                            LAMBDA e : e.name # q_model[t])
    /\ UNCHANGED << MAX_SESSIONS, new_session_calls, ncalls, pc, model, sess,
                    evicted, ret, made, pre, last_use, trace, last, config,
                    prevars, data, q_model, r_sess, gs_calls, tr_calls,
                    wvars >>

(* app.py:186-189  remove returns the bytes, or it raises and the handler  *)
(* raises HTTPException(500, "Background removal failed")                  *)
ReqL187(t) ==
    /\ rpc[t] = "remove"
    /\ \E done \in BOOLEAN :
          IF done
          THEN Proceed(t, "L193")
          ELSE Answer(t, "TransformFailed")
    /\ UNCHANGED << cachevars, config, prevars, data, q_model, r_sess,
                    gs_calls, tr_calls, wvars >>

(* app.py:192-207  the bytes are decoded, upscaled and returned as PNG, or *)
(* the handler raises HTTPException(500, "Failed to decode ...")           *)
ReqL193(t) ==
    /\ rpc[t] = "L193"
    /\ \E decoded \in BOOLEAN :
          IF decoded
          THEN Answer(t, "ok")
          ELSE Answer(t, "DecodeFailed")
    /\ UNCHANGED << cachevars, config, prevars, data, q_model, r_sess,
                    gs_calls, tr_calls, wvars >>

(* The response has been sent: the event loop takes the next request. *)
ReqDone(t) ==
    /\ rpc[t] = "finished"
    /\ rpc' = [rpc EXCEPT ![t] = "none"]
    /\ data' = [data EXCEPT ![t] = ""]
    /\ q_model' = [q_model EXCEPT ![t] = UnknownModel]
    /\ r_sess' = [r_sess EXCEPT ![t] = NoSession]
    /\ outcome' = [outcome EXCEPT ![t] = "none"]
    /\ gs_calls' = [gs_calls EXCEPT ![t] = 0]
    /\ tr_calls' = [tr_calls EXCEPT ![t] = 0]
    /\ UNCHANGED << cachevars, config, prevars, last_tf, wvars >>

(* The steps of remove_background, run by thread t. *)
remove_background(t) ==
    \/ ReqL177(t)
    \/ ReqL178(t)
    \/ ReqL182(t)
    \/ ReqL182r(t)
    \/ ReqL186(t)
    \/ ReqL187(t)
    \/ ReqL193(t)

-----------------------------------------------------------------------------
(* The process: the startup hook, then requests served one after another.  *)
Next ==
    \/ PreL125
    \/ PreL133
    \/ PreL135
    \/ PreL139
    \/ PreL144
    \/ ReqL177(EventLoop)
    \/ ReqL178(EventLoop)
    \/ ReqL182(EventLoop)
    \/ ReqL182r(EventLoop)
    \/ ReqL186(EventLoop)
    \/ ReqL187(EventLoop)
    \/ ReqL193(EventLoop)
    \/ ReqDone(EventLoop)
    \/ L59(EventLoop)
    \/ L65(EventLoop)
    \/ L66(EventLoop)
    \/ L67(EventLoop)
    \/ L70(EventLoop)
    \/ L71(EventLoop)
    \/ L72(EventLoop)
    \/ L74(EventLoop)
    \/ L75(EventLoop)
    \/ L78(EventLoop)

Spec == Init /\ [][Next]_vars

(* Thread per request: after the startup hook, the statements of           *)
(* concurrent calls interleave.                                            *)
NextThreads ==
    \/ PreL125
    \/ PreL133
    \/ PreL135
    \/ PreL139
    \/ PreL144
    \/ \E t \in Threads :
          \/ AnyCall(t)
          \/ Statements(t)

SpecThreads == Init /\ [][NextThreads]_vars

(* Thread per request: after the startup hook, every thread serves one     *)
(* request, and the statements of the requests interleave.                 *)
NextRequests ==
    \/ PreL125
    \/ PreL133
    \/ PreL135
    \/ PreL139
    \/ PreL144
    \/ \E t \in Threads :
          \/ remove_background(t)
          \/ Statements(t)

SpecRequests == Init /\ [][NextRequests]_vars

-----------------------------------------------------------------------------
(* warmup.py, the script that downloads the models (warmup.py:26-56).      *)

(* Mutant: the script always reports success. *)
ExitCodeZero(failed) == 0

(* warmup.py:56  0 if not fail else 1 *)
ExitCode(failed) == IF failed = << >> THEN 0 ELSE 1

(* warmup.py:27-28  ok = []; fail = [] *)
WarmL27 ==
    /\ wpc = "L27"
    /\ ok' = << >>
    /\ fail' = << >>
    /\ w_i' = 1
    /\ wpc' = "L31"
    /\ UNCHANGED << cachevars, config, callers, attempts, exit_status >>

(* warmup.py:31-45  one turn of the loop: new_session(m) returns and m is  *)
(* appended to ok, or it raises and (m, str(e)) is appended to fail        *)
WarmL35 ==
    /\ wpc = "L31"
    /\ w_i <= Len(MODELS)
    /\ attempts' = Append(attempts, MODELS[w_i])
    /\ \E created \in BOOLEAN :
          IF created
          THEN ok' = Append(ok, MODELS[w_i]) /\ UNCHANGED fail
          ELSE fail' = Append(fail, << MODELS[w_i], "error" >>) /\ UNCHANGED ok
    /\ w_i' = w_i + 1
    /\ UNCHANGED << cachevars, config, callers, wpc, exit_status >>

(* warmup.py:47-53  the loop is over: the summary is printed *)
WarmL47 ==
    /\ wpc = "L31"
    /\ w_i > Len(MODELS)
    /\ wpc' = "L56"
    /\ UNCHANGED << cachevars, config, callers, w_i, attempts, ok, fail,
                    exit_status >>

(* warmup.py:56  sys.exit(0 if not fail else 1) *)
WarmL56 ==
    /\ wpc = "L56"
    /\ exit_status' = ExitCode(fail)
    /\ wpc' = "exited"
    /\ UNCHANGED << cachevars, config, callers, w_i, attempts, ok, fail >>

NextWarmup ==
    \/ WarmL27
    \/ WarmL35
    \/ WarmL47
    \/ WarmL56

SpecWarmup == Init /\ [][NextWarmup]_vars

-----------------------------------------------------------------------------
(* Properties of calls executed one after another (Spec).                  *)

(* No call is in progress. *)
Quiet == \A u \in Threads : Idle(u)

(* The call of thread t has just completed and no other has started. *)
After(t) == Quiet /\ last = t /\ pc[t] = "done"

Entry(k, v) == [name |-> k, handle |-> v]

Names(seq) == {seq[i] : i \in 1..Len(seq)}

Count(od, k) == Cardinality({i \in 1..Len(od) : od[i].name = k})

A == KNOWN_MODELS[1]
B == KNOWN_MODELS[2]
C == KNOWN_MODELS[3]

Ok(n) == [name |-> n, kind |-> "ok"]

(* C1: whenever a call of get_session has completed (no call in progress), *)
(* the cache holds at most MAX_SESSIONS entries, whatever the names asked  *)
(* for and whatever new_session did.                                       *)
C1_SizeBound == Quiet => Len(session_cache) <= MAX_SESSIONS

(* A call that evicted an entry has completed and the cache is full, after *)
(* a rejected name and a failed creation.                                  *)
C1_Witness ==
    /\ \E t \in Threads : After(t) /\ evicted[t] # << >>
    /\ Len(session_cache) = MAX_SESSIONS
    /\ \E i \in 1..Len(trace) : trace[i].kind = "HTTPException"
    /\ \E i \in 1..Len(trace) : trace[i].kind = "Exception"

(* C2: a miss that inserts an entry evicts exactly as many entries as the  *)
(* cache exceeds MAX_SESSIONS by, every evicted name was resident and was  *)
(* last returned by an older call than every name that stays; and with the *)
(* catalog [A, B, C] and MAX_SESSIONS = 2 the calls A, B, A, C leave       *)
(* exactly {A, C}, B being evicted by the call for C and not before.       *)
C2_EvictsLeastRecentlyUsed ==
    /\ \A t \in Threads :
          (After(t) /\ ret[t].kind = "ok" /\ made[t] = 1) =>
             /\ Len(evicted[t]) =
                   IF Len(pre[t]) + 1 > MAX_SESSIONS
                   THEN Len(pre[t]) + 1 - MAX_SESSIONS ELSE 0
             /\ Names(evicted[t]) \subseteq Keys(pre[t])
             /\ Keys(session_cache) =
                   (Keys(pre[t]) \cup {model[t]}) \ Names(evicted[t])
             /\ \A e \in Names(evicted[t]) : \A k \in Keys(session_cache) :
                   last_use[e] < last_use[k]
    /\ (Quiet /\ MAX_SESSIONS = 2 /\ trace = << Ok(A), Ok(B), Ok(A) >>) =>
          Keys(session_cache) = {A, B}
    /\ \A t \in Threads :
          (After(t) /\ MAX_SESSIONS = 2
              /\ trace = << Ok(A), Ok(B), Ok(A), Ok(C) >>) =>
             /\ Keys(session_cache) = {A, C}
             /\ evicted[t] = << B >>

(* The scenario of the claim has run to its end. *)
C2_Witness ==
    /\ Quiet /\ MAX_SESSIONS = 2
    /\ trace = << Ok(A), Ok(B), Ok(A), Ok(C) >>
    /\ \E t \in Threads : After(t) /\ evicted[t] = << B >>

(* C3: a call with a name outside KNOWN_MODELS ends with the HTTPException *)
(* of line 60, makes no new_session call, and leaves the cache, entries    *)
(* and order, as it was when the call started.                             *)
C3_UnknownNameRejected ==
    \A t \in Threads :
       (After(t) /\ model[t] \notin KnownSet) =>
          /\ ret[t].kind = "HTTPException"
          /\ made[t] = 0
          /\ session_cache = pre[t]
          /\ evicted[t] = << >>

(* An unknown name was rejected while the cache was not empty. *)
C3_Witness ==
    \E t \in Threads :
       /\ After(t) /\ model[t] = UnknownModel
       /\ ret[t].kind = "HTTPException"
       /\ Len(pre[t]) = MAX_SESSIONS

(* C4: a call for a name that is resident makes no new_session call,       *)
(* returns the stored session, and leaves the cache as it was except that  *)
(* the entry of that name is now the last: nothing inserted, nothing       *)
(* evicted, the other entries in their order.                              *)
C4_HitOnlyMovesToEnd ==
    \A t \in Threads :
       (After(t) /\ Contains(pre[t], model[t])) =>
          /\ made[t] = 0
          /\ ret[t].kind = "ok"
          /\ \E i \in 1..Len(pre[t]) :
                /\ pre[t][i].name = model[t]
                /\ ret[t].value = pre[t][i].handle
          /\ evicted[t] = << >>
          /\ session_cache =
                Append(SelectSeq(pre[t], LAMBDA e : e.name # model[t]),
                       Entry(model[t], ret[t].value))

(* A hit on the oldest of two entries: the order changed. *)
C4_Witness ==
    \E t \in Threads :
       /\ After(t) /\ Len(pre[t]) = 2
       /\ pre[t][1].name = model[t]
       /\ session_cache # pre[t]
       /\ ret[t].kind = "ok"

(* C5: when new_session raises, the call ends with that exception and the  *)
(* cache is as it was when the call started, with no entry for the name    *)
(* and nothing evicted; and the next call for the same name calls          *)
(* new_session again.                                                      *)
C5_FailedCreationLeavesCache ==
    \A t \in Threads :
       /\ (After(t) /\ made[t] = 1 /\ sess[t] = NoSession) =>
             /\ ret[t].kind = "Exception"
             /\ session_cache = pre[t]
             /\ ~Contains(session_cache, model[t])
             /\ evicted[t] = << >>
       /\ (After(t) /\ Len(trace) >= 2
              /\ trace[Len(trace) - 1] = [name |-> model[t], kind |-> "Exception"]) =>
             made[t] = 1

(* A creation failed with a full cache, and the next call for the same    *)
(* name created the session.                                               *)
C5_Witness ==
    \E t \in Threads :
       /\ After(t) /\ Len(trace) >= 2
       /\ trace[Len(trace) - 1] = [name |-> model[t], kind |-> "Exception"]
       /\ trace[Len(trace)] = Ok(model[t])
       /\ made[t] = 1
       /\ Len(pre[t]) = MAX_SESSIONS

(* C6 as stated: with MAX_SESSIONS = 1 the cache never holds two names at  *)
(* the same time (the old entry is evicted before the new one is           *)
(* inserted).                                                              *)
C6_EvictedBeforeInsert ==
    MAX_SESSIONS = 1 => Len(session_cache) <= 1

(* C6 amended: with MAX_SESSIONS = 1, a successful call for a name other   *)
(* than the one resident is a miss that calls new_session once, and when   *)
(* it has completed the cache holds the new entry only, the call having    *)
(* evicted the old one (after the insertion, in its sweep).                *)
C6_PingPong ==
    \A t \in Threads :
       (/\ After(t) /\ MAX_SESSIONS = 1 /\ ret[t].kind = "ok"
        /\ Len(pre[t]) = 1 /\ pre[t][1].name # model[t]) =>
          /\ made[t] = 1
          /\ ret[t].value = [model_name |-> model[t], id |-> new_session_calls]
          /\ evicted[t] = << pre[t][1].name >>
          /\ session_cache = << Entry(model[t], ret[t].value) >>
          /\ \A i \in 1..Len(pre[t]) : pre[t][i].handle # ret[t].value

(* X, Y, X in turn with MAX_SESSIONS = 1: the third call created X anew.   *)
C6_Witness ==
    \E t \in Threads :
       /\ After(t) /\ MAX_SESSIONS = 1
       /\ trace = << Ok(A), Ok(B), Ok(A) >>
       /\ made[t] = 1 /\ new_session_calls = 3
       /\ evicted[t] = << B >>
       /\ Keys(session_cache) = {A}

-----------------------------------------------------------------------------
(* Properties of concurrent calls (SpecThreads).                           *)

(* Thread t is between the residency check of line 65 and its return. *)
InCheckInsertEvict(t) ==
    pc[t] \in {"L66", "L67", "L70", "L71", "L72", "L74", "L75", "L78"}

(* The session new_session returned to the call of thread t, if any. *)
Created(t) == made[t] = 1 /\ sess[t] # NoSession

-----------------------------------------------------------------------------
(* Properties of preload_all_models (Spec).                                *)

N == Len(KNOWN_MODELS)

(* The hook has run the preload and returned, and no call was made since.  *)
PreloadDone ==
    /\ startup = "finished"
    /\ PRELOAD_MODELS = "1"
    /\ ncalls = Len(preload_log)

(* new_session raised for no name during the preload. *)
AllCreated ==
    \A i \in 1..Len(preload_log) : preload_log[i].kind # "Exception"

(* new_session raised for name n during the preload. *)
FailedFor(n) ==
    \E i \in 1..Len(preload_log) :
       preload_log[i] = [name |-> n, kind |-> "Exception"]

LogNames == [i \in 1..Len(preload_log) |-> preload_log[i].name]

(* C11 as stated: a preload with MAX_SESSIONS = 1 in which new_session     *)
(* succeeds for every name makes exactly N new_session calls, for every    *)
(* DEFAULT_MODEL of the catalog.                                           *)
C11_ExactlyNCalls ==
    (PreloadDone /\ MAX_SESSIONS = 1 /\ DEFAULT_MODEL \in KnownSet /\ AllCreated)
       => new_session_calls = N

(* C11 amended: such a preload makes N new_session calls when              *)
(* DEFAULT_MODEL is the last name of KNOWN_MODELS, and N + 1 otherwise:    *)
(* the loop has evicted the default model, and the call of line 139        *)
(* creates it a second time.                                               *)
C11_CallsOfPreload ==
    (PreloadDone /\ MAX_SESSIONS = 1 /\ DEFAULT_MODEL \in KnownSet /\ AllCreated)
       => new_session_calls = IF DEFAULT_MODEL = KNOWN_MODELS[N] THEN N ELSE N + 1

(* A preload with the first name as default has created it twice. *)
C11_Witness ==
    /\ PreloadDone /\ MAX_SESSIONS = 1 /\ AllCreated
    /\ DEFAULT_MODEL = KNOWN_MODELS[1]
    /\ new_session_calls = N + 1
    /\ preload_log[N + 1] = Ok(DEFAULT_MODEL)

(* C12: when the preload has completed, for every MAX_SESSIONS, the entry  *)
(* of DEFAULT_MODEL is the last of the cache if there is one; and if       *)
(* new_session did not raise for DEFAULT_MODEL, the entry is there, and    *)
(* alone when MAX_SESSIONS = 1.                                            *)
C12_DefaultMostRecent ==
    PreloadDone =>
       /\ Contains(session_cache, DEFAULT_MODEL) =>
             session_cache[Len(session_cache)].name = DEFAULT_MODEL
       /\ (DEFAULT_MODEL \in KnownSet /\ ~FailedFor(DEFAULT_MODEL)) =>
             /\ Contains(session_cache, DEFAULT_MODEL)
             /\ MAX_SESSIONS = 1 => Keys(session_cache) = {DEFAULT_MODEL}

(* The cache is smaller than the catalog, the default is its first name,   *)
(* the loop evicted it and line 139 brought it back to the end.            *)
C12_Witness ==
    /\ PreloadDone /\ MAX_SESSIONS < N
    /\ DEFAULT_MODEL = KNOWN_MODELS[1]
    /\ ~FailedFor(DEFAULT_MODEL)
    /\ Len(session_cache) = MAX_SESSIONS
    /\ session_cache[Len(session_cache)].name = DEFAULT_MODEL
    /\ session_cache[Len(session_cache)].handle.id = new_session_calls

(* C13: whichever calls fail, the enabled preload calls get_session for    *)
(* the names of KNOWN_MODELS in their order, one call each, then for       *)
(* DEFAULT_MODEL, and no exception leaves the hook.                        *)
C13_PreloadGoesOn ==
    /\ startup # "crashed"
    /\ Len(preload_log) <= N + 1
    /\ \A i \in 1..Len(preload_log) :
          LogNames[i] = IF i <= N THEN KNOWN_MODELS[i] ELSE DEFAULT_MODEL
    /\ (startup = "finished" /\ PRELOAD_MODELS = "1") =>
          LogNames = KNOWN_MODELS \o << DEFAULT_MODEL >>

(* The preload has completed although the first name and the default       *)
(* failed, and a later name was created.                                   *)
C13_Witness ==
    /\ PreloadDone
    /\ preload_log[1].kind = "Exception"
    /\ preload_log[2].kind = "ok"
    /\ preload_log[N + 1].kind \in {"Exception", "HTTPException"}

(* C14: with PRELOAD_MODELS other than "1" the hook calls neither          *)
(* get_session nor new_session and leaves the cache empty; the first call  *)
(* for a known name after it finds nothing and creates the session.        *)
C14_DisabledPreloadIsNoOp ==
    PRELOAD_MODELS # "1" =>
       /\ preload_log = << >>
       /\ startup \in {"L125", "finished"}
       /\ ncalls = 0 =>
             /\ session_cache = << >>
             /\ new_session_calls = 0
             /\ trace = << >>
       /\ \A t \in Threads :
             (After(t) /\ ncalls = 1 /\ model[t] \in KnownSet) =>
                /\ pre[t] = << >>
                /\ made[t] = 1
                /\ ret[t].kind = "ok" =>
                      session_cache = << Entry(model[t], ret[t].value) >>

(* The hook returned without preloading and the first call created the     *)
(* session.                                                                *)
C14_Witness ==
    /\ PRELOAD_MODELS # "1" /\ startup = "finished" /\ ncalls = 1
    /\ \E t \in Threads :
          /\ After(t) /\ made[t] = 1 /\ ret[t].kind = "ok"
          /\ session_cache = << Entry(model[t], ret[t].value) >>

-----------------------------------------------------------------------------
(* Properties of remove_background.                                        *)

Answered(t) == rpc[t] = "finished"

(* C15 as stated: every request, however it ends, has made exactly one     *)
(* get_session call and at most one call of remove, and remove is called   *)
(* only after get_session returned a session.                              *)
C15_ExactlyOneCall ==
    \A t \in Threads :
       /\ Answered(t) => (gs_calls[t] = 1 /\ tr_calls[t] \in {0, 1})
       /\ tr_calls[t] >= 1 => (gs_calls[t] = 1 /\ ret[t].kind = "ok")

(* C15 amended: a request with an empty upload is answered InvalidInput    *)
(* without any get_session or remove call; every other request makes       *)
(* exactly one get_session call and at most one call of remove; and remove *)
(* is called only after get_session returned a session, with that session. *)
C15_CallsOfRequest ==
    \A t \in Threads :
       /\ gs_calls[t] <= 1 /\ tr_calls[t] <= 1
       /\ Answered(t) =>
             /\ gs_calls[t] = IF outcome[t] = "InvalidInput" THEN 0 ELSE 1
             /\ (outcome[t] = "InvalidInput") = (data[t] = "")
             /\ outcome[t] \in {"InvalidInput", "HTTPException", "Exception"}
                   => tr_calls[t] = 0
             /\ outcome[t] \in {"ok", "TransformFailed", "DecodeFailed"}
                   => tr_calls[t] = 1
       /\ tr_calls[t] >= 1 =>
             /\ gs_calls[t] = 1
             /\ pc[t] = "done" /\ ret[t].kind = "ok"
             /\ r_sess[t] = ret[t].value

(* An empty upload was rejected while the cache held a session. *)
C15_Witness ==
    \E t \in Threads :
       /\ Answered(t) /\ outcome[t] = "InvalidInput"
       /\ gs_calls[t] = 0 /\ tr_calls[t] = 0
       /\ session_cache # << >>

(* The cache as get_session leaves it after returning session h for m,     *)
(* having started from cache od.                                           *)
LeftBy(od, m, h) ==
    LET full == Append(SelectSeq(od, LAMBDA e : e.name # m), Entry(m, h))
        k == Len(full)
    IN  IF k > MAX_SESSIONS THEN SubSeq(full, k - MAX_SESSIONS + 1, k) ELSE full

(* C16: when remove fails, the request is answered after one get_session   *)
(* call, at most one new_session call and one call of remove, and the      *)
(* cache is as get_session left it, with the session of the model as last  *)
(* entry; the next request, if it is for the same model, finds the session *)
(* in the cache.                                                           *)
C16_FailedRemoveKeepsCache ==
    \A t \in Threads :
       /\ (Answered(t) /\ outcome[t] = "TransformFailed") =>
             /\ gs_calls[t] = 1 /\ tr_calls[t] = 1 /\ made[t] <= 1
             /\ ncalls = Len(trace)
             /\ session_cache = LeftBy(pre[t], q_model[t], r_sess[t])
             /\ last_tf = q_model[t]
       /\ (/\ rpc[t] \in {"L182r", "L186", "remove", "L193"}
           /\ pc[t] = "done"
           /\ last_tf = q_model[t]) =>
             /\ made[t] = 0
             /\ ret[t].kind = "ok"
             /\ Contains(pre[t], q_model[t])
             /\ ret[t].value = GetItem(pre[t], q_model[t])

(* After a failed removal the same model was asked for again, and its      *)
(* session came from the cache.                                            *)
C16_Witness ==
    \E t \in Threads :
       /\ rpc[t] = "L186" /\ last_tf = q_model[t]
       /\ made[t] = 0 /\ r_sess[t] # NoSession
       /\ new_session_calls = 1 /\ ncalls = 2

C18_ReturnedIsStoredAndLast ==
    \A t \in Threads :
       (After(t) /\ ret[t].kind = "ok") =>
          /\ session_cache # << >>
          /\ session_cache[Len(session_cache)] = Entry(model[t], ret[t].value)
          /\ Count(session_cache, model[t]) = 1
          /\ ret[t].value.model_name = model[t]

(* A miss in a full cache: the sweep evicted another entry and kept the    *)
(* one just stored.                                                        *)
C18_Witness ==
    \E t \in Threads :
       /\ After(t) /\ ret[t].kind = "ok" /\ made[t] = 1
       /\ evicted[t] # << >>
       /\ Len(session_cache) = MAX_SESSIONS
       /\ session_cache[Len(session_cache)] = Entry(model[t], ret[t].value)

-----------------------------------------------------------------------------
(* Properties of warmup.py (SpecWarmup).                                   *)

FailNames == [i \in 1..Len(fail) |-> fail[i][1]]

(* C19: the script calls new_session once for every name of MODELS, in     *)
(* the order of the list, whatever failed before; when the loop is over    *)
(* every name is in exactly one of ok and fail; and the exit status is 0   *)
(* exactly when fail is empty, and 1 otherwise.                            *)
C19_WarmupTriesAll ==
    /\ wpc # "L27" => attempts = SubSeq(MODELS, 1, w_i - 1)
    /\ wpc \in {"L56", "exited"} =>
          /\ attempts = MODELS
          /\ Len(ok) + Len(fail) = Len(MODELS)
          /\ \A i \in 1..Len(MODELS) :
                (MODELS[i] \in Names(ok)) # (MODELS[i] \in Names(FailNames))
    /\ wpc = "exited" =>
          /\ exit_status \in {0, 1}
          /\ (exit_status = 0) = (fail = << >>)
    /\ wpc # "exited" => exit_status = -1

(* The first name failed, the others were still tried, the script exited   *)
(* with 1.                                                                 *)
C19_Witness ==
    /\ wpc = "exited" /\ exit_status = 1
    /\ Len(fail) = 1 /\ fail[1][1] = MODELS[1]
    /\ ok = SubSeq(MODELS, 2, Len(MODELS))

=============================================================================
